---- MODULE Spec2Model ----
(***************************************************************************)
(* Tuya Cloud -> MQTT bridge (tuya_cloud_mqtt_all.py).                     *)
(*                                                                         *)
(* Two activities share the MQTT client: the polling loop of the main      *)
(* thread (getstatus -> scale -> publish -> MongoDB gate) and on_message,  *)
(* which paho's network thread (loop_start) runs for every inbound         *)
(* command.  Each action below is one step of one of the two, cut at the   *)
(* calls that leave the process (registry, bus, sink).                     *)
(*                                                                         *)
(* Python strings that the code splits, upper-cases, prefixes or           *)
(* concatenates are sequences of one-character strings; device display     *)
(* names and JSON field tags, which are only compared, are TLA+ strings.   *)
(* A Python scalar is a record [t, b, n, s]: its type and, by type, its    *)
(* truth value, its number or its text; a float is held exactly, as n      *)
(* thousandths (every float the bridge computes is an integer divided by   *)
(* 10 or by 1000).                                                         *)
(***************************************************************************)
EXTENDS Integers, Sequences, FiniteSets, TLC

(***************************************************************************)
(* String literals of the source.                                          *)
(***************************************************************************)
MQTT_TOPIC_PREFIX == <<"t", "u", "y", "a">>
SLASH == <<"/">>
S_set == <<"s", "e", "t">>
S_state == <<"s", "t", "a", "t", "e">>
S_response == <<"r", "e", "s", "p", "o", "n", "s", "e">>
S_telemetry == <<"t", "e", "l", "e", "m", "e", "t", "r", "y">>
S_discovery == <<"d", "i", "s", "c", "o", "v", "e", "r", "y">>
S_device == <<"d", "e", "v", "i", "c", "e">>
S_config == <<"c", "o", "n", "f", "i", "g">>
S_ON == <<"O", "N">>
S_OFF == <<"O", "F", "F">>
S_True == <<"T", "r", "u", "e">>
S_False == <<"F", "a", "l", "s", "e">>
S_None == <<"N", "o", "n", "e">>
C_switch == <<"s", "w", "i", "t", "c", "h">>
C_countdown == <<"c", "o", "u", "n", "t", "d", "o", "w", "n">>
C_cur_voltage == <<"c", "u", "r", "_", "v", "o", "l", "t", "a", "g", "e">>
C_cur_power == <<"c", "u", "r", "_", "p", "o", "w", "e", "r">>
C_add_ele == <<"a", "d", "d", "_", "e", "l", "e">>
DIN_RAIL_NAME == "Din Rail Wi-Fi Switch with metering"
TWO_CH_NAME == "WiFi Smart 2CH Touch Switch"

(***************************************************************************)
(* Strings of the inputs the model draws: data-point codes, device ids,    *)
(* command payloads.                                                       *)
(***************************************************************************)
C_switch_1 == <<"s", "w", "i", "t", "c", "h", "_", "1">>
C_countdown_1 == <<"c", "o", "u", "n", "t", "d", "o", "w", "n", "_", "1">>
C_brightness == <<"b", "r", "i", "g", "h", "t", "n", "e", "s", "s">>
C_xswitch == <<"x", "s", "w", "i", "t", "c", "h">>
C_cur_current == <<"c", "u", "r", "_", "c", "u", "r", "r", "e", "n", "t">>
ID_gov == <<"d", "1">>
ID_dep == <<"d", "2">>
ID_other == <<"d", "3">>
P_on == <<"o", "n">>
P_On == <<"O", "n">>
P_off == <<"o", "f", "f">>
P_oFF == <<"o", "F", "F">>
P_50 == <<"5", "0">>
P_dim == <<"d", "i", "m">>

(***************************************************************************)
(* Python scalars.                                                         *)
(***************************************************************************)
PyBool(b) == [t |-> "bool", b |-> b, n |-> 0, s |-> <<>>]
PyInt(n) == [t |-> "int", b |-> FALSE, n |-> n, s |-> <<>>]
PyFloat(m) == [t |-> "float", b |-> FALSE, n |-> m, s |-> <<>>]
PyStr(s) == [t |-> "str", b |-> FALSE, n |-> 0, s |-> s]
PyNone == [t |-> "none", b |-> FALSE, n |-> 0, s |-> <<>>]

(***************************************************************************)
(* str.upper(), str.startswith(), str.split('/') and the f-strings that    *)
(* build the topics.                                                       *)
(***************************************************************************)
UpperChar(c) ==
  CASE c = "a" -> "A" [] c = "b" -> "B" [] c = "c" -> "C" [] c = "d" -> "D"
    [] c = "e" -> "E" [] c = "f" -> "F" [] c = "g" -> "G" [] c = "h" -> "H"
    [] c = "i" -> "I" [] c = "j" -> "J" [] c = "k" -> "K" [] c = "l" -> "L"
    [] c = "m" -> "M" [] c = "n" -> "N" [] c = "o" -> "O" [] c = "p" -> "P"
    [] c = "q" -> "Q" [] c = "r" -> "R" [] c = "s" -> "S" [] c = "t" -> "T"
    [] c = "u" -> "U" [] c = "v" -> "V" [] c = "w" -> "W" [] c = "x" -> "X"
    [] c = "y" -> "Y" [] c = "z" -> "Z" [] OTHER -> c

upper(s) == [i \in 1..Len(s) |-> UpperChar(s[i])]

startswith(s, p) == Len(s) >= Len(p) /\ SubSeq(s, 1, Len(p)) = p

RECURSIVE split(_)
split(s) ==
  IF \A i \in 1..Len(s) : s[i] # "/"
  THEN <<s>>
  ELSE LET i == CHOOSE j \in 1..Len(s) :
                  s[j] = "/" /\ \A h \in 1..(j - 1) : s[h] # "/"
       IN  <<SubSeq(s, 1, i - 1)>> \o split(SubSeq(s, i + 1, Len(s)))

SetTopic(device_id, code) ==
  MQTT_TOPIC_PREFIX \o SLASH \o device_id \o SLASH \o code \o SLASH \o S_set

BaseSetTopic(device_id) ==
  MQTT_TOPIC_PREFIX \o SLASH \o device_id \o SLASH \o S_set

StateTopic(device_id, code) ==
  MQTT_TOPIC_PREFIX \o SLASH \o device_id \o SLASH \o code \o SLASH \o S_state

ResponseTopic(device_id) ==
  MQTT_TOPIC_PREFIX \o SLASH \o device_id \o SLASH \o S_response

TelemetryTopic(device_id) ==
  MQTT_TOPIC_PREFIX \o SLASH \o device_id \o SLASH \o S_telemetry

DiscoveryTopic(device_id) ==
  S_discovery \o SLASH \o S_device \o SLASH \o device_id \o SLASH \o S_config

(***************************************************************************)
(* str() of a scalar.  A float prints its integer part, a point and its    *)
(* decimals without trailing zeros, keeping one ("220.5", "220.0",         *)
(* "1.234").                                                               *)
(***************************************************************************)
Digit(d) ==
  CASE d = 0 -> "0" [] d = 1 -> "1" [] d = 2 -> "2" [] d = 3 -> "3"
    [] d = 4 -> "4" [] d = 5 -> "5" [] d = 6 -> "6" [] d = 7 -> "7"
    [] d = 8 -> "8" [] d = 9 -> "9"

RECURSIVE IntStr(_)
IntStr(n) == IF n < 10 THEN <<Digit(n)>> ELSE IntStr(n \div 10) \o <<Digit(n % 10)>>

FloatStr(m) ==
  LET f == m % 1000
      frac == IF f % 100 = 0 THEN <<Digit(f \div 100)>>
              ELSE IF f % 10 = 0 THEN <<Digit(f \div 100), Digit((f \div 10) % 10)>>
              ELSE <<Digit(f \div 100), Digit((f \div 10) % 10), Digit(f % 10)>>
  IN  IntStr(m \div 1000) \o <<".">> \o frac

str(x) ==
  CASE x.t = "bool" -> (IF x.b THEN S_True ELSE S_False)
    [] x.t = "int" -> IntStr(x.n)
    [] x.t = "float" -> FloatStr(x.n)
    [] x.t = "str" -> x.s
    [] x.t = "none" -> S_None

(***************************************************************************)
(* json.dumps of a JSON object, which gives a batch payload its text, and  *)
(* json.loads, which the payload carries as the document its text denotes  *)
(* ("error": the text is no JSON; "object"; "other": JSON, not an object). *)
(***************************************************************************)
JsonText(x) ==
  CASE x.t = "bool" -> (IF x.b THEN <<"t", "r", "u", "e">> ELSE <<"f", "a", "l", "s", "e">>)
    [] x.t = "int" -> IntStr(x.n)
    [] x.t = "str" -> <<"\"">> \o x.s \o <<"\"">>
    [] x.t = "none" -> <<"n", "u", "l", "l">>

RECURSIVE MembersText(_)
MembersText(items) ==
  IF items = <<>> THEN <<>>
  ELSE <<"\"">> \o items[1].k \o <<"\"", ":", " ">> \o JsonText(items[1].v)
       \o (IF Len(items) = 1 THEN <<>> ELSE <<",", " ">> \o MembersText(Tail(items)))

dumps(items) == <<"{">> \o MembersText(items) \o <<"}">>

TextPayload(text) == [text |-> text, doc |-> [kind |-> "error", items |-> <<>>]]
ScalarPayload(text) == [text |-> text, doc |-> [kind |-> "other", items |-> <<>>]]
ObjectPayload(items) == [text |-> dumps(items), doc |-> [kind |-> "object", items |-> items]]

json_loads(payload) == payload.doc

(***************************************************************************)
(* Bounds of the inputs.                                                   *)
(***************************************************************************)
MaxKeys == 2
MaxItems == 2

(***************************************************************************)
(* Inbound messages: the topics the two subscriptions of on_connect let    *)
(* through, with ON/OFF in several cases, other strings, a JSON scalar and *)
(* JSON objects of up to MaxKeys members.                                  *)
(***************************************************************************)
CmdDeviceIds == {ID_gov, ID_other}
CmdCodes == {C_switch, C_countdown_1, C_brightness}
JsonKeys == {C_switch, C_countdown_1, C_brightness, C_xswitch}
JsonValues == {PyStr(P_on), PyStr(P_oFF), PyBool(TRUE), PyInt(50)}
JsonMembers == {[k |-> k, v |-> v] : k \in JsonKeys, v \in JsonValues}

JsonObjects ==
  UNION {{o \in [1..n -> JsonMembers] :
            \A i, j \in 1..n : i # j => o[i].k # o[j].k} : n \in 0..MaxKeys}

Payloads ==
  {TextPayload(x) : x \in {S_ON, P_on, P_On, S_OFF, P_off, P_oFF, P_dim}}
    \cup {ScalarPayload(P_50)}
    \cup {ObjectPayload(o) : o \in JsonObjects}

Subscribed ==
  {SetTopic(d, c) : d \in CmdDeviceIds, c \in CmdCodes}
    \cup {BaseSetTopic(d) : d \in CmdDeviceIds}

Messages == {[topic |-> x, payload |-> p] : x \in Subscribed, p \in Payloads}

SendCommandOutcomes == {"success", "failure", "raise"}

(***************************************************************************)
(* The registry's answers to getstatus: a result list of up to MaxItems    *)
(* data points (one of them not a data point at all), a dict without       *)
(* 'result', or an exception.  The codes that are scaled carry integers,   *)
(* as the registry's schema has them.                                      *)
(***************************************************************************)
DataPoint(code, value) == [is_dp |-> TRUE, code |-> code, value |-> value]
NotADataPoint == [is_dp |-> FALSE, code |-> <<>>, value |-> PyNone]

StatusItems ==
  {DataPoint(C_switch, PyBool(TRUE)), DataPoint(C_switch, PyBool(FALSE)),
   DataPoint(C_cur_voltage, PyInt(2205)), DataPoint(C_cur_power, PyInt(15)),
   DataPoint(C_add_ele, PyInt(1234)), DataPoint(C_cur_current, PyInt(7)),
   NotADataPoint}

StatusLists == UNION {[1..n -> StatusItems] : n \in 0..MaxItems}

GetStatusOutcomes ==
  {[kind |-> "result", result |-> sl] : sl \in StatusLists}
    \cup {[kind |-> "error", result |-> <<>>], [kind |-> "raise", result |-> <<>>]}

InsertOutcomes == {"ok", "raise"}

(***************************************************************************)
(* The device list cloud.getdevices() returned at startup: the Din Rail    *)
(* switch and the 2CH switch that depends on it, with a third device or    *)
(* with an entry that has no id, in every order.                           *)
(***************************************************************************)
DinRail == [id |-> ID_gov, name |-> DIN_RAIL_NAME]
TwoCh == [id |-> ID_dep, name |-> TWO_CH_NAME]
Plug == [id |-> ID_other, name |-> "Smart Plug"]
NoId == [id |-> <<>>, name |-> "Unknown"]

Orderings(S) ==
  {l \in [1..Cardinality(S) -> S] : \A i, j \in 1..Cardinality(S) : i # j => l[i] # l[j]}

DeviceLists == Orderings({DinRail, TwoCh, Plug}) \cup Orderings({DinRail, TwoCh, NoId})

(***************************************************************************)
(* State.                                                                  *)
(*   devices, collection, din_rail_is_on: the module's globals.            *)
(*   ppc, idx, status_list, item_k, device_data: where the polling loop    *)
(*     is and its locals.                                                  *)
(*   hpc, h_msg, h_case, command_list, result, echo_k, json_bound: where   *)
(*     on_message is and its locals; json_bound says whether on_message's  *)
(*     local name json is bound (line 185 makes json a local of the whole  *)
(*     function).                                                          *)
(*   published: the message the last step handed to mqtt_client.publish.   *)
(*   History, read by the properties only: cycle (what the running poll    *)
(*     cycle has done), hlog (the calls on_message made for h_msg),        *)
(*     pre_cmd_snap (the snapshot the poller holds was read before the     *)
(*     command on_message has sent), stale_echoed (the codes of that       *)
(*     snapshot whose command has been echoed since), last_switch (the     *)
(*     switch value of the last Din Rail snapshot the gate saw that had    *)
(*     one), ever_off (one of those values was false), polled_switch (the  *)
(*     switch value of the last Din Rail status cloud.getstatus returned   *)
(*     that had one), told (the data map of the telemetry message of the   *)
(*     device the loop is at, once published), inserted (the document the  *)
(*     last step handed to collection.insert_one).                         *)
(***************************************************************************)
VARIABLES devices, collection, din_rail_is_on, ppc, idx, status_list, item_k,
          device_data, cycle, hpc, h_msg, h_case, command_list, result, echo_k,
          json_bound, hlog, published, pre_cmd_snap, stale_echoed, last_switch,
          ever_off, polled_switch, told, inserted

pollvars == <<devices, collection, din_rail_is_on, ppc, idx, status_list, item_k,
              device_data, cycle, last_switch, ever_off,
              polled_switch, told, inserted>>
handlervars == <<hpc, h_msg, h_case, command_list, result, echo_k, json_bound, hlog>>
vars == <<pollvars, handlervars, published, pre_cmd_snap, stale_echoed>>

NoPublish == [by |-> "none", topic |-> <<>>, payload |-> <<>>, retain |-> FALSE]
Publish(by, topic, payload, retain) ==
  [by |-> by, topic |-> topic, payload |-> payload, retain |-> retain]

NoMessage == [topic |-> <<>>, payload |-> TextPayload(<<>>)]

Call(ev, to, body, retain) == [ev |-> ev, to |-> to, body |-> body, retain |-> retain]

Truthy(x) ==
  CASE x.t = "bool" -> x.b
    [] x.t \in {"int", "float"} -> x.n # 0
    [] x.t = "str" -> x.s # <<>>
    [] x.t = "none" -> FALSE

InitState ==
  /\ din_rail_is_on = PyBool(TRUE)
  /\ ppc = "fetch"
  /\ idx = 1
  /\ status_list = <<>>
  /\ item_k = 1
  /\ device_data = <<>>
  /\ cycle = <<>>
  /\ hpc = "idle"
  /\ h_msg = NoMessage
  /\ h_case = 0
  /\ command_list = <<>>
  /\ result = "none"
  /\ echo_k = 1
  /\ json_bound = FALSE
  /\ hlog = <<>>
  /\ published = NoPublish
  /\ pre_cmd_snap = FALSE
  /\ stale_echoed = {}
  /\ last_switch = "none"
  /\ ever_off = FALSE
  /\ polled_switch = "none"
  /\ told = {}
  /\ inserted = {}

(***************************************************************************)
(* on_message.                                                             *)
(***************************************************************************)
\* line 158: ON/OFF in any case become a boolean, anything else stays a string
SingleValue(text) ==
  IF upper(text) \in {S_ON, S_OFF} THEN PyBool(upper(text) = S_ON) ELSE PyStr(text)

\* line 173
SingleStateVal(text) == IF upper(text) = S_ON THEN S_ON ELSE S_OFF

\* IsCommandKey with `'switch' in k` for k.startswith('switch')
IsCommandKey_Contains(k) ==
  \/ \E i \in 1..Len(k) : startswith(SubSeq(k, i, Len(k)), C_switch)
  \/ startswith(k, C_countdown)

\* IsCommandKey with the countdown prefix forgotten
IsCommandKey_OnlySwitch(k) == startswith(k, C_switch)

\* line 190
IsCommandKey(k) == startswith(k, C_switch) \/ startswith(k, C_countdown)

\* lines 191-193
BatchValue(v) ==
  LET val1 == IF upper(str(v)) = S_ON THEN PyBool(TRUE) ELSE v
  IN  IF upper(str(v)) = S_OFF THEN PyBool(FALSE) ELSE val1

\* lines 188-194
RECURSIVE BuildCommandList(_)
BuildCommandList(items) ==
  IF items = <<>> THEN <<>>
  ELSE (IF IsCommandKey(items[1].k)
        THEN <<[code |-> items[1].k, value |-> BatchValue(items[1].v)]>>
        ELSE <<>>) \o BuildCommandList(Tail(items))

\* line 212
BatchStateVal(c_val) ==
  IF c_val = PyBool(TRUE) THEN S_ON
  ELSE IF c_val = PyBool(FALSE) THEN S_OFF
  ELSE str(c_val)

\* lines 170, 178, 206, 218: the documents handed to json.dumps (the log text
\* of their "msg" member is left out)
SingleSuccess(code, text) == [status |-> "success", code |-> code, value |-> text]
BatchSuccess(cmds) == [status |-> "success", cmd |-> cmds]
CommandError(res) == [status |-> "error", result |-> res]

\* OnJSONDecodeError reporting the parse failure on the response topic, as
\* the failure of a command is reported
OnJSONDecodeError_Responds(device_id) ==
  <<Call("publish", ResponseTopic(device_id), CommandError("none"), FALSE)>>

\* lines 222-223: what the handler of json.JSONDecodeError publishes (it prints)
OnJSONDecodeError(device_id) == <<>>

\* SendCommandCalls with a command that did not succeed sent once more
SendCommandCalls_RetryOnFailure(device_id, commands, r) ==
  IF r = "success" THEN <<Call("sendcommand", device_id, commands, FALSE)>>
  ELSE <<Call("sendcommand", device_id, commands, FALSE),
         Call("sendcommand", device_id, commands, FALSE)>>

\* lines 162 and 198: the calls of cloud.sendcommand for one message, whatever
\* the call answers (r)
SendCommandCalls(device_id, commands, r) ==
  <<Call("sendcommand", device_id, commands, FALSE)>>

LastPublish(calls) ==
  IF calls = <<>> THEN NoPublish
  ELSE LET c == calls[Len(calls)]
       IN  Publish("handler", c.to, c.body, c.retain)

\* The poller holds a snapshot of this device that it has not finished publishing.
PollerHoldsSnapshot(device_id) == ppc = "items" /\ devices[idx].id = device_id

\* lines 136-162 and 180-198: from the arrival of m up to the call of
\* cloud.sendcommand, which answers r
on_message(m, r) ==
  /\ hpc = "idle"
  /\ h_msg' = m
  /\ echo_k' = 1
  /\ LET parts == split(m.topic)
         device_id == parts[2]
     IN  IF Len(parts) >= 4
         THEN LET commands == <<[code |-> parts[3], value |-> SingleValue(m.payload.text)]>>
              IN  /\ h_case' = 1
                  /\ json_bound' = FALSE
                  /\ command_list' = commands
                  /\ result' = r
                  /\ hlog' = SendCommandCalls(device_id, commands, r)
                  /\ hpc' = IF r = "raise" THEN "done" ELSE "respond"
                  /\ pre_cmd_snap' = PollerHoldsSnapshot(device_id)
                  /\ published' = NoPublish
         ELSE IF Len(parts) = 3 /\ parts[3] = S_set
         THEN LET data == json_loads(m.payload)
                  cmds == IF data.kind = "object" THEN BuildCommandList(data.items) ELSE <<>>
                  sent == data.kind = "object" /\ cmds # <<>>
                  calls == IF data.kind = "error" THEN OnJSONDecodeError(device_id)
                           ELSE IF sent THEN SendCommandCalls(device_id, cmds, r)
                           ELSE <<>>
              IN  /\ h_case' = 2
                  /\ json_bound' = TRUE
                  /\ command_list' = cmds
                  /\ result' = IF sent THEN r ELSE "none"
                  /\ hlog' = calls
                  /\ hpc' = IF sent /\ r # "raise" THEN "respond" ELSE "done"
                  /\ pre_cmd_snap' = (sent /\ PollerHoldsSnapshot(device_id))
                  /\ published' = IF sent THEN NoPublish ELSE LastPublish(calls)
         ELSE /\ h_case' = 0
              /\ json_bound' = FALSE
              /\ command_list' = <<>>
              /\ result' = "none"
              /\ hlog' = <<>>
              /\ hpc' = "done"
              /\ pre_cmd_snap' = FALSE
              /\ published' = NoPublish
  /\ UNCHANGED <<pollvars, stale_echoed>>

\* lines 165-170, 175-178 and 201-206, 215-218: the response.  json.dumps is
\* evaluated first: where json is unbound it raises UnboundLocalError, which
\* line 225 catches, and nothing is published.
on_message_respond ==
  /\ hpc = "respond"
  /\ UNCHANGED <<pollvars, h_msg, h_case, command_list, result, echo_k, json_bound,
                 pre_cmd_snap, stale_echoed>>
  /\ LET device_id == split(h_msg.topic)[2]
         resp_topic == ResponseTopic(device_id)
         body == IF result = "success"
                 THEN (IF h_case = 1
                       THEN SingleSuccess(command_list[1].code, h_msg.payload.text)
                       ELSE BatchSuccess(command_list))
                 ELSE CommandError(result)
     IN  IF json_bound
         THEN /\ published' = Publish("handler", resp_topic, body, FALSE)
              /\ hlog' = Append(hlog, Call("publish", resp_topic, body, FALSE))
              /\ hpc' = IF result = "success" THEN "echo" ELSE "done"
         ELSE /\ published' = NoPublish
              /\ hlog' = hlog
              /\ hpc' = "done"

\* lines 172-174 and 208-213: the optimistic update, one publish per command
on_message_echo ==
  /\ hpc = "echo"
  /\ UNCHANGED <<pollvars, h_msg, h_case, command_list, result, json_bound, pre_cmd_snap>>
  /\ LET device_id == split(h_msg.topic)[2]
         cmd == command_list[echo_k]
         state_val == IF h_case = 1 THEN SingleStateVal(h_msg.payload.text)
                      ELSE BatchStateVal(cmd.value)
         topic == StateTopic(device_id, cmd.code)
     IN  /\ published' = Publish("handler", topic, state_val, TRUE)
         /\ hlog' = Append(hlog, Call("publish", topic, state_val, TRUE))
         /\ stale_echoed' = IF pre_cmd_snap THEN stale_echoed \cup {cmd.code}
                            ELSE stale_echoed
  /\ echo_k' = echo_k + 1
  /\ hpc' = IF echo_k = Len(command_list) THEN "done" ELSE "echo"

\* on_message returns (also through the handlers of lines 222 and 225): its
\* locals are gone and paho may call it for the next message
on_message_return ==
  /\ hpc = "done"
  /\ UNCHANGED <<pollvars, stale_echoed>>
  /\ hpc' = "idle"
  /\ h_msg' = NoMessage
  /\ h_case' = 0
  /\ command_list' = <<>>
  /\ result' = "none"
  /\ echo_k' = 1
  /\ json_bound' = FALSE
  /\ hlog' = <<>>
  /\ published' = NoPublish
  /\ pre_cmd_snap' = FALSE

InitCmd ==
  /\ InitState
  /\ devices = <<[id |-> ID_gov, name |-> DIN_RAIL_NAME]>>
  /\ collection = TRUE

NextCmd ==
  \/ hpc = "idle" /\ \E m \in Messages, r \in SendCommandOutcomes : on_message(m, r)
  \/ on_message_respond
  \/ on_message_echo
  \/ on_message_return

\* on_message alone, for every inbound message.
SpecCmd == InitCmd /\ [][NextCmd]_vars

(***************************************************************************)
(* on_message for topics outside the two subscriptions as well: on_message *)
(* itself reads msg.topic and is the only place of the bridge that looks   *)
(* at the shape of a topic.  The topics are the bridge's own state,        *)
(* telemetry, response and discovery topics, a topic of two segments and a *)
(* set topic with a segment too many.                                      *)
(***************************************************************************)
Unsubscribed ==
  {StateTopic(ID_gov, C_switch), TelemetryTopic(ID_gov), ResponseTopic(ID_gov),
   DiscoveryTopic(ID_gov), MQTT_TOPIC_PREFIX \o SLASH \o ID_gov,
   SetTopic(ID_gov, C_switch) \o SLASH \o S_set}

AnyMessages ==
  {[topic |-> x, payload |-> p] : x \in Subscribed \cup Unsubscribed, p \in Payloads}

NextAnyTopic ==
  \/ hpc = "idle" /\ \E m \in AnyMessages, r \in SendCommandOutcomes : on_message(m, r)
  \/ on_message_respond
  \/ on_message_echo
  \/ on_message_return

SpecAnyTopic == InitCmd /\ [][NextAnyTopic]_vars

(***************************************************************************)
(* The polling loop.                                                       *)
(***************************************************************************)
Num(x) == IF x.t = "bool" THEN (IF x.b THEN 1 ELSE 0) ELSE x.n

\* value / 10.0 and value / 1000.0, for the integers (and booleans) in range
TrueDiv(x, d) == PyFloat(Num(x) * (1000 \div d))

\* Scale with add_ele divided by 10 like the two codes above it
Scale_AddEleByTen(code, value) ==
  IF code = C_cur_voltage THEN TrueDiv(value, 10)
  ELSE IF code = C_cur_power THEN TrueDiv(value, 10)
  ELSE IF code = C_add_ele THEN TrueDiv(value, 10)
  ELSE value

\* lines 275-280
Scale(code, value) ==
  IF code = C_cur_voltage THEN TrueDiv(value, 10)
  ELSE IF code = C_cur_power THEN TrueDiv(value, 10)
  ELSE IF code = C_add_ele THEN TrueDiv(value, 1000)
  ELSE value

\* lines 288-291
FormatValue(value) ==
  IF value.t = "bool" THEN (IF value.b THEN S_ON ELSE S_OFF) ELSE str(value)

\* line 282: device_data[code] = value
DictSet(d, key, value) ==
  [c \in DOMAIN d \cup {key} |-> IF c = key THEN value ELSE d[c]]

\* dict.get(key): None when the key is missing
DictGet(d, key) == IF key \in DOMAIN d THEN d[key] ELSE PyNone

Event(ev, i, v) == [ev |-> ev, i |-> i, v |-> v]

\* The for statement of line 248 goes to the next device, or line 385 ends
\* the cycle and line 392 sleeps.
NextDevice ==
  IF idx < Len(devices)
  THEN ppc' = "fetch" /\ idx' = idx + 1
  ELSE ppc' = "sleep" /\ idx' = idx

\* status_list, device_data and the item the loop is at are dead once a device
\* is done (lines 259, 268 and 270 assign them before they are read again)
DropLocals == status_list' = <<>> /\ device_data' = <<>> /\ item_k' = 1

\* The switch value of a result list (that of its last switch data point,
\* which line 282 leaves in device_data), or before when it has none.
PolledSwitch(result_list, before) ==
  LET at == {i \in 1..Len(result_list) :
               result_list[i].is_dp /\ result_list[i].code = C_switch}
      last == CHOOSE i \in at : \A h \in at : h <= i
  IN  IF at = {} \/ result_list[last].value = PyNone THEN before
      ELSE IF Truthy(result_list[last].value) THEN "true" ELSE "false"

\* lines 248-259: the next device; cloud.getstatus(device_id) answers data
PollGetStatus(data) ==
  /\ ppc = "fetch"
  /\ UNCHANGED <<devices, collection, last_switch, ever_off, din_rail_is_on, handlervars>>
  /\ LET device_id == devices[idx].id
     IN  IF device_id = <<>>
         THEN /\ NextDevice
              /\ DropLocals
              /\ UNCHANGED <<cycle, pre_cmd_snap, stale_echoed>>
         ELSE /\ cycle' = Append(cycle, Event("getstatus", idx, data.kind))
              /\ pre_cmd_snap' = FALSE
              /\ stale_echoed' = {}
              /\ IF data.kind = "result"
                 THEN /\ status_list' = data.result
                      /\ device_data' = <<>>
                      /\ item_k' = 1
                      /\ ppc' = IF data.result = <<>> THEN "telemetry" ELSE "items"
                      /\ idx' = idx
                 ELSE IF data.kind = "error"
                 THEN NextDevice /\ DropLocals
                 ELSE ppc' = "sleep" /\ idx' = idx /\ DropLocals
  /\ told' = {}
  /\ inserted' = {}
  /\ polled_switch' = IF devices[idx].name = DIN_RAIL_NAME /\ data.kind = "result"
                       THEN PolledSwitch(data.result, polled_switch)
                       ELSE polled_switch
  /\ published' = NoPublish

\* PollItem leaving the codes that can be commanded to on_message's echo: it
\* publishes no state for a code that is a command key
PollItem_LeavesCommandKeys ==
  /\ ppc = "items"
  /\ UNCHANGED <<devices, collection, last_switch, ever_off, polled_switch, din_rail_is_on,
                 idx, status_list, cycle, told, inserted, handlervars, pre_cmd_snap,
                 stale_echoed>>
  /\ LET item == status_list[item_k]
         value == Scale(item.code, item.value)
     IN  IF item.is_dp
         THEN /\ device_data' = DictSet(device_data, item.code, value)
              /\ published' = IF IsCommandKey(item.code) THEN NoPublish
                               ELSE Publish("poller", StateTopic(devices[idx].id, item.code),
                                            FormatValue(value), TRUE)
         ELSE /\ device_data' = device_data
              /\ published' = NoPublish
  /\ item_k' = item_k + 1
  /\ ppc' = IF item_k = Len(status_list) THEN "telemetry" ELSE "items"

\* lines 270-293: one item of status_list
PollItem ==
  /\ ppc = "items"
  /\ UNCHANGED <<devices, collection, last_switch, ever_off, polled_switch, din_rail_is_on,
                 idx, status_list, cycle, told, inserted, handlervars, pre_cmd_snap,
                 stale_echoed>>
  /\ LET item == status_list[item_k]
         value == Scale(item.code, item.value)
     IN  IF item.is_dp
         THEN /\ device_data' = DictSet(device_data, item.code, value)
              /\ published' = Publish("poller", StateTopic(devices[idx].id, item.code),
                                      FormatValue(value), TRUE)
         ELSE /\ device_data' = device_data
              /\ published' = NoPublish
  /\ item_k' = item_k + 1
  /\ ppc' = IF item_k = Len(status_list) THEN "telemetry" ELSE "items"

\* lines 321-330 (the two clock readings of the document are left out)
PollTelemetry ==
  /\ ppc = "telemetry"
  /\ UNCHANGED <<devices, collection, last_switch, ever_off, polled_switch, din_rail_is_on,
                 idx, status_list, item_k, device_data, inserted, handlervars,
                 pre_cmd_snap, stale_echoed>>
  /\ told' = {device_data}
  /\ published' = Publish("poller", TelemetryTopic(devices[idx].id),
                          [name |-> devices[idx].name, id |-> devices[idx].id,
                           data |-> device_data], TRUE)
  /\ cycle' = Append(cycle, Event("telemetry", idx, ""))
  /\ ppc' = "discovery"

\* lines 332-348
PollDiscovery ==
  /\ ppc = "discovery"
  /\ UNCHANGED <<devices, collection, last_switch, ever_off, polled_switch, din_rail_is_on,
                 inserted, handlervars, pre_cmd_snap, stale_echoed>>
  /\ published' = Publish("poller", DiscoveryTopic(devices[idx].id),
                          [name |-> devices[idx].name, unique_id |-> devices[idx].id,
                           state_topic |-> TelemetryTopic(devices[idx].id),
                           command_topic |-> BaseSetTopic(devices[idx].id)], TRUE)
  /\ cycle' = Append(cycle, Event("discovery", idx, ""))
  /\ IF collection
     THEN ppc' = "log" /\ idx' = idx /\ UNCHANGED <<status_list, item_k, device_data, told>>
     ELSE NextDevice /\ DropLocals /\ told' = {}

\* UpdatedDinRail without the test of the device name: the switch value of
\* any device becomes din_rail_is_on
UpdatedDinRail_AnyDevice(device_name, data, is_on) ==
  IF DictGet(data, C_switch) # PyNone THEN DictGet(data, C_switch) ELSE is_on

\* UpdatedDinRail taking only switch = false: once off, never on again
UpdatedDinRail_NeverBackOn(device_name, data, is_on) ==
  IF device_name = DIN_RAIL_NAME /\ DictGet(data, C_switch) = PyBool(FALSE)
  THEN DictGet(data, C_switch)
  ELSE is_on

\* lines 352-355: the Din Rail device's switch value, when it has one,
\* becomes din_rail_is_on
UpdatedDinRail(device_name, data, is_on) ==
  IF device_name = DIN_RAIL_NAME /\ DictGet(data, C_switch) # PyNone
  THEN DictGet(data, C_switch)
  ELSE is_on

\* ShouldLog with every device depending on the Din Rail switch
ShouldLog_AllGated(device_name, is_on) == Truthy(is_on)

\* lines 349, 359-369, with is_on the value lines 352-355 left
ShouldLog(device_name, is_on) ==
  IF device_name = DIN_RAIL_NAME THEN Truthy(is_on)
  ELSE IF device_name = TWO_CH_NAME THEN Truthy(is_on)
  ELSE TRUE

\* InsertDoc with the status map as line 268 created it, before the items
\* of the status were put into it
InsertDoc_BeforeItems(device, data) ==
  [device_id |-> device.id, device_name |-> device.name, status |-> <<>>]

\* lines 372-378: the document (its clock reading and its constant "source"
\* are left out)
InsertDoc(device, data) ==
  [device_id |-> device.id, device_name |-> device.name, status |-> data]

\* AfterInsert without the try of line 379: an exception of insert_one leaves
\* the for loop and is caught at line 388
AfterInsert_Escapes(ins) ==
  IF ins = "raise" THEN ppc' = "sleep" /\ idx' = idx ELSE NextDevice

\* lines 379-383: insert_one returns, or raises and line 382 catches it; the
\* loop goes to the next device either way
AfterInsert(ins) == NextDevice

\* lines 349-383: the gate and collection.insert_one(doc), which answers ins
PollLog(ins) ==
  /\ ppc = "log"
  /\ UNCHANGED <<devices, collection, polled_switch, handlervars, pre_cmd_snap, stale_echoed>>
  /\ LET device_name == devices[idx].name
         is_on == UpdatedDinRail(device_name, device_data, din_rail_is_on)
         should_log == ShouldLog(device_name, is_on)
         e1 == IF device_name = DIN_RAIL_NAME /\ DictGet(device_data, C_switch) # PyNone
               THEN <<Event("switch", idx, IF Truthy(DictGet(device_data, C_switch))
                                           THEN "true" ELSE "false")>>
               ELSE <<>>
         e2 == <<Event("should_log", idx, IF should_log THEN "true" ELSE "false")>>
         e3 == IF should_log THEN <<Event("insert_one", idx, ins)>> ELSE <<>>
     IN  /\ din_rail_is_on' = is_on
         /\ cycle' = cycle \o e1 \o e2 \o e3
         /\ last_switch' = IF e1 = <<>> THEN last_switch ELSE e1[1].v
         /\ ever_off' = (ever_off \/ (e1 # <<>> /\ e1[1].v = "false"))
         /\ IF should_log THEN AfterInsert(ins) ELSE NextDevice
         /\ inserted' = IF should_log THEN {InsertDoc(devices[idx], device_data)} ELSE {}
         /\ told' = IF should_log THEN told ELSE {}
  /\ DropLocals
  /\ published' = NoPublish

\* PollSleep with the try of line 247 around the while of line 246 instead of
\* inside it: an exception that left the for loop ends the loop
PollSleep_TryAroundLoop ==
  /\ ppc = "sleep"
  /\ ~(cycle # <<>> /\ cycle[Len(cycle)].v = "raise")
  /\ UNCHANGED <<devices, collection, last_switch, ever_off, polled_switch, din_rail_is_on,
                 status_list, item_k, device_data, handlervars, pre_cmd_snap, stale_echoed>>
  /\ told' = {}
  /\ inserted' = {}
  /\ ppc' = "fetch"
  /\ idx' = 1
  /\ cycle' = <<>>
  /\ published' = NoPublish

\* line 392, then line 246 starts the next cycle
PollSleep ==
  /\ ppc = "sleep"
  /\ UNCHANGED <<devices, collection, last_switch, ever_off, polled_switch, din_rail_is_on,
                 status_list, item_k, device_data, handlervars, pre_cmd_snap, stale_echoed>>
  /\ told' = {}
  /\ inserted' = {}
  /\ ppc' = "fetch"
  /\ idx' = 1
  /\ cycle' = <<>>
  /\ published' = NoPublish

InitPoll ==
  /\ InitState
  /\ devices \in DeviceLists
  /\ collection \in BOOLEAN

NextPoll ==
  \/ ppc = "fetch" /\ \E data \in GetStatusOutcomes : PollGetStatus(data)
  \/ PollItem
  \/ PollTelemetry
  \/ PollDiscovery
  \/ ppc = "log" /\ \E ins \in InsertOutcomes : PollLog(ins)
  \/ PollSleep

\* The polling loop alone, for every device list and every registry answer.
SpecPoll == InitPoll /\ [][NextPoll]_vars

(***************************************************************************)
(* The bridge: the polling loop and on_message side by side.  Its inputs   *)
(* are the ones the two meet on: commands for the Din Rail device's switch *)
(* and registry answers that carry that switch.                            *)
(***************************************************************************)
SwitchCommands ==
  {m \in Messages :
     /\ m.topic \in {SetTopic(ID_gov, C_switch), BaseSetTopic(ID_gov)}
     /\ m.payload \in {TextPayload(S_ON),
                       ObjectPayload(<<[k |-> C_switch, v |-> PyStr(P_on)]>>),
                       ObjectPayload(<<[k |-> C_switch, v |-> PyStr(P_oFF)]>>)}}

SwitchAnswers ==
  {data \in GetStatusOutcomes :
     \A i \in 1..Len(data.result) : data.result[i].code = C_switch}

Init ==
  /\ InitState
  /\ devices \in Orderings({DinRail, TwoCh})
  /\ collection \in BOOLEAN

Next ==
  \/ ppc = "fetch" /\ \E data \in SwitchAnswers : PollGetStatus(data)
  \/ PollItem
  \/ PollTelemetry
  \/ PollDiscovery
  \/ ppc = "log" /\ \E ins \in InsertOutcomes : PollLog(ins)
  \/ PollSleep
  \/ hpc = "idle" /\ \E m \in SwitchCommands, r \in SendCommandOutcomes : on_message(m, r)
  \/ on_message_respond
  \/ on_message_echo
  \/ on_message_return

Spec == Init /\ [][Next]_vars

\* The steps of the main thread and the steps by which on_message, once
\* called, runs to its return.  Both threads keep running (paho's thread
\* finishes the callback it is in); that a message arrives is not required.
PollStep ==
  \/ ppc = "fetch" /\ \E data \in SwitchAnswers : PollGetStatus(data)
  \/ PollItem
  \/ PollTelemetry
  \/ PollDiscovery
  \/ ppc = "log" /\ \E ins \in InsertOutcomes : PollLog(ins)
  \/ PollSleep

HandlerStep == on_message_respond \/ on_message_echo \/ on_message_return

\* The polling loop alone, its thread not stopped for good: whatever step the
\* loop is at (a call that returns or raises, the sleep of line 392 ending),
\* it is taken.
FairPoll == Init /\ [][PollStep]_vars /\ WF_vars(PollStep)

FairSpec == Spec /\ WF_vars(PollStep) /\ WF_vars(HandlerStep)

\* The bridge with a third device, which is neither the Din Rail switch nor
\* the 2CH switch, between or before the two.
InitThree ==
  /\ InitState
  /\ devices \in {<<DinRail, Plug, TwoCh>>, <<Plug, TwoCh, DinRail>>}
  /\ collection \in BOOLEAN

SpecThree == InitThree /\ [][Next]_vars

(***************************************************************************)
(* Properties.                                                             *)
(***************************************************************************)
IsSingleSet(topic) ==
  LET parts == split(topic)
  IN  Len(parts) = 4 /\ parts[1] = MQTT_TOPIC_PREFIX /\ parts[4] = S_set

IsBaseSet(topic) ==
  LET parts == split(topic)
  IN  Len(parts) = 3 /\ parts[1] = MQTT_TOPIC_PREFIX /\ parts[3] = S_set

IsStateTopic(topic) ==
  LET parts == split(topic)
  IN  Len(parts) = 4 /\ parts[1] = MQTT_TOPIC_PREFIX /\ parts[4] = S_state

IsTelemetryTopic(topic) ==
  LET parts == split(topic)
  IN  Len(parts) = 3 /\ parts[1] = MQTT_TOPIC_PREFIX /\ parts[3] = S_telemetry

\* The device a command message addresses.
Addressed == split(h_msg.topic)[2]

\* The places of hlog that hold a call of cloud.sendcommand, a publish on the
\* response topic, a publish on a state topic.
SendCalls == {i \in 1..Len(hlog) : hlog[i].ev = "sendcommand"}
ResponseCalls ==
  {i \in 1..Len(hlog) : hlog[i].ev = "publish" /\ hlog[i].to = ResponseTopic(Addressed)}
EchoCalls == {i \in 1..Len(hlog) : hlog[i].ev = "publish" /\ IsStateTopic(hlog[i].to)}

\* hlog has a retained publish of text on the state topic of (Addressed, code).
Echoed(code, text) ==
  \E i \in EchoCalls :
    /\ hlog[i].to = StateTopic(Addressed, code)
    /\ hlog[i].retain
    /\ hlog[i].body = text

\* C1: a message on tuya/{id}/{code}/set whose payload is ON in any case makes
\* on_message call sendcommand exactly once, for id and with the one item
\* {code, true}, and, when the call reports success, publish the retained "ON"
\* on tuya/{id}/{code}/state before it returns.
C1_OnIsSentAndEchoed ==
  (hpc = "done" /\ IsSingleSet(h_msg.topic) /\ upper(h_msg.payload.text) = S_ON) =>
    /\ Cardinality(SendCalls) = 1
    /\ \A i \in SendCalls :
         /\ hlog[i].to = Addressed
         /\ hlog[i].body = <<[code |-> split(h_msg.topic)[3], value |-> PyBool(TRUE)]>>
    /\ result = "success" => Echoed(split(h_msg.topic)[3], S_ON)

\* C2: when sendcommand was called and returned a result, on_message publishes
\* exactly one message on tuya/{id}/response, with status "success" for a
\* successful result and "error" otherwise; it publishes on a state topic only
\* after a success response and never for a failed result.
C2_OneResponsePerResult ==
  (hpc = "done" /\ SendCalls # {} /\ result \in {"success", "failure"}) =>
    /\ Cardinality(ResponseCalls) = 1
    /\ \A i \in ResponseCalls :
         hlog[i].body.status = (IF result = "success" THEN "success" ELSE "error")
    /\ \A e \in EchoCalls :
         result = "success" /\ \E i \in ResponseCalls : i < e

\* The text that stands for a requested value on a state topic.
RequestedText(value) ==
  CASE value.t = "bool" -> (IF value.b THEN S_ON ELSE S_OFF)
    [] value.t = "str" -> value.s
    [] OTHER -> str(value)

\* C3: after a successful command of either shape, every item of the command
\* has its retained echo on tuya/{id}/{code}/state, and the echo carries the
\* requested value: "ON"/"OFF" for true/false, the string itself for a string.
C3_EchoCarriesRequestedValue ==
  (hpc = "done" /\ result = "success") =>
    \A k \in 1..Len(command_list) :
      Echoed(command_list[k].code, RequestedText(command_list[k].value))

\* s begins with p.
HasPrefix(s, p) == \E n \in 0..Len(s) : SubSeq(s, 1, n) = p

\* The value a batch member asks for: true/false for the strings ON/OFF in any
\* case, the member's value otherwise.
RequestedValue(v) ==
  IF v.t = "str" /\ upper(v.s) = S_ON THEN PyBool(TRUE)
  ELSE IF v.t = "str" /\ upper(v.s) = S_OFF THEN PyBool(FALSE)
  ELSE v

\* The members of a JSON object that name a command, in the object's order.
RequestedItems(items) ==
  LET named == SelectSeq(items, LAMBDA p : HasPrefix(p.k, C_switch) \/ HasPrefix(p.k, C_countdown))
  IN  [i \in 1..Len(named) |-> [code |-> named[i].k, value |-> RequestedValue(named[i].v)]]

\* C4: for a message on tuya/{id}/set whose payload is a JSON object, the
\* items of the command sent are exactly the members whose key starts with
\* "switch" or "countdown", in the object's order, each value mapped from
\* ON/OFF (any case) to true/false and unchanged otherwise; no other key is sent.
C4_BatchSendsTheCommandKeys ==
  (hpc # "idle" /\ IsBaseSet(h_msg.topic) /\ json_loads(h_msg.payload).kind = "object") =>
    LET items == RequestedItems(json_loads(h_msg.payload).items)
    IN  /\ \A i \in SendCalls : hlog[i].to = Addressed /\ hlog[i].body = items
        /\ items # <<>> => Cardinality(SendCalls) = 1

\* C4's case: an object with a switch, a countdown and a foreign key was sent
\* as the two command keys, ON mapped to true and the number kept.
C4_Witness ==
  /\ hpc = "done"
  /\ h_msg.topic = BaseSetTopic(ID_gov)
  /\ json_loads(h_msg.payload).kind = "object"
  /\ \E i, j \in 1..Len(json_loads(h_msg.payload).items) :
       /\ json_loads(h_msg.payload).items[i].k = C_brightness
       /\ json_loads(h_msg.payload).items[j] = [k |-> C_countdown_1, v |-> PyInt(50)]
  /\ \E i \in SendCalls :
       hlog[i].body = <<[code |-> C_countdown_1, value |-> PyInt(50)]>>

\* C5: a message on tuya/{id}/set whose payload is not JSON makes on_message
\* call sendcommand not at all and publish nothing, on the response topic or
\* on a state topic.
C5_MalformedJsonIsDiscarded ==
  (hpc # "idle" /\ IsBaseSet(h_msg.topic) /\ json_loads(h_msg.payload).kind = "error") =>
    /\ hpc = "done"
    /\ hlog = <<>>
    /\ published.by # "handler"

\* C5's case: on_message has handled "dim" on a base set topic.
C5_Witness ==
  /\ hpc = "done"
  /\ h_msg.topic = BaseSetTopic(ID_gov)
  /\ h_msg.payload = TextPayload(P_dim)
  /\ h_case = 2

\* The entries of the running cycle's history that are the gate's decision for
\* the dependent device, and those that are a switch value of the Din Rail.
DependentDecisions ==
  {j \in 1..Len(cycle) : cycle[j].ev = "should_log" /\ devices[cycle[j].i].name = TWO_CH_NAME}
SwitchReports == {g \in 1..Len(cycle) : cycle[g].ev = "switch"}

\* C6: with the sink configured, a dependent device processed after the
\* governing device reported switch = false in the same cycle is not inserted;
\* in a cycle in which the governing device reports switch = true the
\* dependent devices processed in that cycle are inserted, and so are those of
\* the following cycles until the governing device reports false again.
C6_GateFollowsGoverningSwitch ==
  collection =>
    \A j \in DependentDecisions :
      /\ (\E g \in SwitchReports : g < j /\ cycle[g].v = "false") => cycle[j].v = "false"
      /\ (\E g \in SwitchReports : cycle[g].v = "true") => cycle[j].v = "true"
      /\ (SwitchReports = {} /\ last_switch = "true") => cycle[j].v = "true"

\* C7: in every poll cycle, whatever the order of the device list, the
\* governing device's switch value is taken into din_rail_is_on before the
\* logging decision of any dependent device of that cycle.
C7_GoverningBeforeDependents ==
  \A g \in SwitchReports : \A j \in DependentDecisions : g < j

\* The devices whose status fetch failed in the running cycle, by result or by
\* exception, and those whose fetch was made.
FailedFetch ==
  {cycle[e].i : e \in {e \in 1..Len(cycle) :
                         cycle[e].ev = "getstatus" /\ cycle[e].v \in {"error", "raise"}}}
Fetched(ok) ==
  {cycle[e].i : e \in {e \in 1..Len(cycle) :
                         cycle[e].ev = "getstatus" /\ (ok => cycle[e].v = "result")}}
Told == {cycle[e].i : e \in {e \in 1..Len(cycle) : cycle[e].ev = "telemetry"}}

\* C8: a failed status fetch of one device, by error result or by exception,
\* does not keep the cycle from fetching, and publishing the status of, every
\* device that follows it in the list.
C8_FailureDoesNotStopCycle ==
  ppc = "sleep" =>
    \A i \in FailedFetch : \A j \in (i + 1)..Len(devices) :
      devices[j].id # <<>> =>
        /\ j \in Fetched(FALSE)
        /\ j \in Fetched(TRUE) => j \in Told

\* C9: once the echo of a successful command for (id, code) is published, no
\* later publish of the poller on tuya/{id}/{code}/state carries a status the
\* poller read before that command was sent.
C9_NoStaleStateAfterEcho ==
  (published.by = "poller" /\ IsStateTopic(published.topic)) =>
    split(published.topic)[3] \notin stale_echoed

\* The registry value of code divided by 10 or 1000 where the code is one of
\* the three scaled ones: x is value / d  iff  x is a float of x.n thousandths
\* with x.n * d = value * 1000.
IsScaled(code, raw, x) ==
  IF code \in {C_cur_voltage, C_cur_power} THEN x.t = "float" /\ x.n * 10 = raw.n * 1000
  ELSE IF code = C_add_ele THEN x.t = "float" /\ x.n * 1000 = raw.n * 1000
  ELSE x = raw

\* The last data point of status_list with this code.
LastOf(code) ==
  LET at == {i \in 1..Len(status_list) : status_list[i].is_dp /\ status_list[i].code = code}
  IN  status_list[CHOOSE i \in at : \A h \in at : h <= i]

\* C10: what the poller publishes for cur_voltage, cur_power and add_ele, on
\* the state topic and in the telemetry document, is the registry value
\* divided by 10, 10 and 1000, never the registry value itself; for every
\* other code it is the registry value unchanged.
C10_PublishedValuesAreScaled ==
  /\ (published.by = "poller" /\ IsStateTopic(published.topic)) =>
       LET item == status_list[item_k - 1]
       IN  /\ published.topic = StateTopic(devices[idx].id, item.code)
           /\ \E x \in {PyFloat(item.value.n * 100), PyFloat(item.value.n), item.value} :
                IsScaled(item.code, item.value, x) /\ published.payload = FormatValue(x)
           /\ item.code \in {C_cur_voltage, C_cur_power, C_add_ele} =>
                published.payload # FormatValue(item.value)
  /\ (published.by = "poller" /\ IsTelemetryTopic(published.topic)) =>
       /\ DOMAIN published.payload.data =
            {status_list[i].code : i \in {i \in 1..Len(status_list) : status_list[i].is_dp}}
       /\ \A code \in DOMAIN published.payload.data :
            /\ IsScaled(code, LastOf(code).value, published.payload.data[code])
            /\ code \in {C_cur_voltage, C_cur_power, C_add_ele} =>
                 published.payload.data[code] # LastOf(code).value

\* C10's case: a telemetry document with a scaled voltage and a scaled energy.
C10_Witness ==
  /\ published.by = "poller"
  /\ published.topic = TelemetryTopic(ID_gov)
  /\ DOMAIN published.payload.data = {C_cur_voltage, C_add_ele}
  /\ published.payload.data[C_cur_voltage] = PyFloat(220500)
  /\ published.payload.data[C_add_ele] = PyFloat(1234)

ParsedCommand(m) ==
  IF IsSingleSet(m.topic)
  THEN <<[code |-> split(m.topic)[3], value |-> RequestedValue(PyStr(m.payload.text))]>>
  ELSE IF IsBaseSet(m.topic) /\ json_loads(m.payload).kind = "object"
  THEN RequestedItems(json_loads(m.payload).items)
  ELSE <<>>

\* C12: handling one inbound message calls sendcommand at most once, and
\* exactly once when the message parses into a command that is not empty; a
\* call that failed or raised is not made again for that message.
C12_SendCommandAtMostOnce ==
  hpc # "idle" =>
    /\ Cardinality(SendCalls) <= 1
    /\ ParsedCommand(h_msg) # <<>> =>
         /\ Cardinality(SendCalls) = 1
         /\ \A i \in SendCalls : hlog[i].body = ParsedCommand(h_msg)
    /\ ParsedCommand(h_msg) = <<>> => SendCalls = {}

\* C12's case: a batch command failed, the error was reported and on_message
\* is about to return with the one call it made.
C12_Witness ==
  /\ hpc = "done"
  /\ h_case = 2
  /\ result = "failure"
  /\ ResponseCalls # {}
  /\ Cardinality(SendCalls) = 1

\* An exception has left the for loop of line 248 and was caught at line 388.
EscapedException ==
  /\ ppc = "sleep"
  /\ cycle # <<>>
  /\ cycle[Len(cycle)] = Event("getstatus", idx, "raise")

\* Line 246 starts a cycle: the loop is at the first device of the list.
CycleStart == ppc = "fetch" /\ idx = 1 /\ cycle = <<>>

\* C13: an exception that escapes the processing of a poll cycle does not
\* stop the loop: after the sleep a new cycle starts at the first device of
\* the list; while the main thread runs, a new cycle always begins again.
C13_NextCycleAlwaysBegins ==
  /\ EscapedException ~> CycleStart
  /\ []<>CycleStart

\* C13's case: in a cycle after one that took the Din Rail's switch = false,
\* cloud.getstatus raised for the first device and the loop is at its sleep.
C13_Witness ==
  /\ EscapedException
  /\ idx = 1
  /\ devices[1].name = DIN_RAIL_NAME
  /\ last_switch = "false"

\* The poller is at the gate with a snapshot of the Din Rail device that has a
\* switch value.
GoverningSwitchAtGate ==
  /\ ppc = "log"
  /\ devices[idx].name = DIN_RAIL_NAME
  /\ DictGet(device_data, C_switch) # PyNone

\* C14: din_rail_is_on is written only while the poller processes a snapshot
\* of the governing device that has a switch value; processing a dependent or
\* any other device, or a governing snapshot without a switch value, and
\* every step of on_message leave it unchanged.
C14_OnlyGoverningSnapshotWrites ==
  [][/\ din_rail_is_on' # din_rail_is_on =>
          /\ GoverningSwitchAtGate
          /\ din_rail_is_on' = DictGet(device_data, C_switch)
     /\ handlervars' # handlervars => din_rail_is_on' = din_rail_is_on]_vars

\* C14's case: din_rail_is_on was set to false; on_message is publishing its
\* echoes while the gate is at the third device with a switch value of true.
C14_Witness ==
  /\ din_rail_is_on = PyBool(FALSE)
  /\ hpc = "echo"
  /\ ppc = "log"
  /\ devices[idx].name = "Smart Plug"
  /\ DictGet(device_data, C_switch) = PyBool(TRUE)

\* The dependent devices' decisions of the running cycle are all to log, and
\* each was followed by the insert.
DependentsInserted ==
  \A j \in DependentDecisions :
    /\ cycle[j].v = "true"
    /\ j < Len(cycle)
    /\ cycle[j + 1].ev = "insert_one"
    /\ cycle[j + 1].i = cycle[j].i

FlagOf(switch) == IF switch = "none" THEN PyBool(TRUE) ELSE PyBool(switch = "true")

\* C15 as stated: with the sink configured, din_rail_is_on is in every
\* reachable state the switch value of the most recent snapshot of the
\* governing device that was polled successfully and had a switch value, and
\* true when there has been none since startup; so the dependent devices are
\* inserted from startup until the governing device first reports false.
C15_FlagIsLastPolledSwitch ==
  collection =>
    /\ din_rail_is_on = FlagOf(polled_switch)
    /\ ~ever_off => DependentsInserted

\* C15 amended: with the sink configured, din_rail_is_on is in every
\* reachable state the switch value of the most recent snapshot of the
\* governing device that has reached the logging gate (line 353) with a
\* switch value, and true when there has been none since startup; so the
\* dependent devices are inserted from startup until the gate first takes
\* switch = false from the governing device.
C15_FlagIsLastGoverningSwitch ==
  collection =>
    /\ din_rail_is_on = FlagOf(last_switch)
    /\ ~ever_off => DependentsInserted

\* C15's case: the governing device reported false and later true; the gate
\* is at the dependent device with din_rail_is_on true again.
C15_Witness ==
  /\ collection
  /\ ever_off
  /\ last_switch = "true"
  /\ din_rail_is_on = PyBool(TRUE)
  /\ ppc = "log"
  /\ devices[idx].name = TWO_CH_NAME

\* The entries of the running cycle's history that are an insert that raised,
\* and the inserts made for the device at place i of the list.
FailedInserts == {e \in 1..Len(cycle) : cycle[e].ev = "insert_one" /\ cycle[e].v = "raise"}
InsertsOf(i) == {e \in 1..Len(cycle) : cycle[e].ev = "insert_one" /\ cycle[e].i = i}
DecisionsOf(i) == {e \in 1..Len(cycle) : cycle[e].ev = "should_log" /\ cycle[e].i = i}
RaisedFetch(i) ==
  \E e \in 1..Len(cycle) : cycle[e] = Event("getstatus", i, "raise")

\* C16: an insert_one that fails for one device is caught at that device: the
\* failed insert is not made again in the cycle, and every later device of
\* the cycle is polled, published and, as the gate decides, inserted (up to a
\* later device whose own getstatus raises).
C16_InsertFailureIsLocal ==
  /\ \A i \in 1..Len(devices) : Cardinality(InsertsOf(i)) <= 1
  /\ \A e \in FailedInserts :
       ppc = "sleep" =>
         \A j \in (cycle[e].i + 1)..Len(devices) :
           (devices[j].id # <<>> /\ \A k \in (cycle[e].i + 1)..(j - 1) : ~RaisedFetch(k)) =>
             /\ j \in Fetched(FALSE)
             /\ j \in Fetched(TRUE) =>
                  /\ j \in Told
                  /\ Cardinality(DecisionsOf(j)) = 1
                  /\ \A d \in DecisionsOf(j) :
                       cycle[d].v = "true" => Cardinality(InsertsOf(j)) = 1

\* C16's case: the insert of the first device raised, and the cycle went on
\* to insert the third.
C16_Witness ==
  /\ ppc = "sleep"
  /\ \E e \in FailedInserts : cycle[e].i = 1
  /\ \E e \in InsertsOf(3) : cycle[e].v = "ok"

\* The device at place i of the list is neither the governing device nor a
\* dependent one; the loop is done with the device at place i.
OtherDevice(i) == devices[i].name \notin {DIN_RAIL_NAME, TWO_CH_NAME}
Processed(i) == idx > i \/ ppc = "sleep"

\* C17: with the sink configured, a device that is neither the governing
\* device nor a dependent one is inserted exactly once in every cycle in
\* which its status fetch returned a result, whatever din_rail_is_on is.
C17_OtherDevicesAlwaysInserted ==
  collection =>
    \A i \in 1..Len(devices) :
      (OtherDevice(i) /\ i \in Fetched(TRUE)) =>
        /\ Cardinality(InsertsOf(i)) <= 1
        /\ Processed(i) => Cardinality(InsertsOf(i)) = 1

\* C17's case: the Din Rail reported switch = false, and the third device,
\* polled after it in the same cycle, was inserted.
C17_Witness ==
  /\ din_rail_is_on = PyBool(FALSE)
  /\ \E g \in SwitchReports : \E e \in 1..Len(cycle) :
       /\ cycle[g].v = "false"
       /\ g < e
       /\ cycle[e].ev = "insert_one"
       /\ devices[cycle[e].i].name = "Smart Plug"

\* C18: a message on tuya/{id}/set whose payload is a JSON object without a
\* key that starts with "switch" or "countdown" (the empty object too) makes
\* on_message call sendcommand not at all and publish nothing, on the
\* response topic or on a state topic.
C18_NoCommandKeysNoDispatch ==
  (/\ hpc # "idle"
   /\ IsBaseSet(h_msg.topic)
   /\ json_loads(h_msg.payload).kind = "object"
   /\ RequestedItems(json_loads(h_msg.payload).items) = <<>>) =>
    /\ hpc = "done"
    /\ hlog = <<>>
    /\ published.by # "handler"

\* C18's case: on_message has handled {"xswitch": "on", "brightness": 50}.
C18_Witness ==
  /\ hpc = "done"
  /\ h_case = 2
  /\ h_msg.topic = BaseSetTopic(ID_gov)
  /\ json_loads(h_msg.payload) =
       [kind |-> "object",
        items |-> <<[k |-> C_xswitch, v |-> PyStr(P_on)], [k |-> C_brightness, v |-> PyInt(50)]>>]

\* on_message has just published its echo on tuya/d1/switch/state; the poller
\* has just published a polled value there; cloud.getstatus has just returned
\* a status of d1 that has the switch code.
SwitchEcho ==
  /\ published.by = "handler"
  /\ published.topic = StateTopic(ID_gov, C_switch)
  /\ published.retain
SwitchPolled ==
  /\ published.by = "poller"
  /\ published.topic = StateTopic(ID_gov, C_switch)
  /\ published.retain
SwitchReturned ==
  /\ ppc = "items"
  /\ item_k = 1
  /\ devices[idx].id = ID_gov
  /\ \E i \in 1..Len(status_list) : status_list[i].is_dp /\ status_list[i].code = C_switch

\* C19: after an echo on tuya/{id}/{code}/state, if the poller keeps running
\* and the registry keeps returning a status of the device that has the code,
\* a retained publish of the poller on the same topic follows (the last
\* write wins; the poller raises no error when the values differ).
C19_PollOverwritesEcho == ([]<>SwitchReturned) => (SwitchEcho ~> SwitchPolled)

\* C19's case: on_message echoed "ON" and the poller then published "OFF" on
\* the same topic.
C19_Witness ==
  /\ SwitchPolled
  /\ published.payload = S_OFF
  /\ C_switch \in stale_echoed
  /\ Echoed(C_switch, S_ON)

\* Entry e of the running cycle's history is an insert that came, for the
\* same device, after a status fetch that returned a result, after the
\* telemetry publish and after the discovery publish, in this order.
InsertFollowsPublishes(e) ==
  \E d \in 1..(e - 1) :
    /\ cycle[d] = Event("discovery", cycle[e].i, "")
    /\ \E t \in 1..(d - 1) :
         /\ cycle[t] = Event("telemetry", cycle[e].i, "")
         /\ \E g \in 1..(t - 1) : cycle[g] = Event("getstatus", cycle[e].i, "result")

\* C20: every record inserted for a device comes, within the same cycle,
\* after the retained telemetry publish and the retained discovery publish
\* for that device, and its status map is the data map of that telemetry
\* message; no record is inserted for a device in a cycle in which its
\* status fetch did not return a result.
C20_InsertFollowsTelemetry ==
  /\ \A e \in 1..Len(cycle) : cycle[e].ev = "insert_one" => InsertFollowsPublishes(e)
  /\ \A doc \in inserted :
       /\ cycle # <<>>
       /\ cycle[Len(cycle)].ev = "insert_one"
       /\ doc.device_id = devices[cycle[Len(cycle)].i].id
       /\ doc.device_name = devices[cycle[Len(cycle)].i].name
       /\ told = {doc.status}
  /\ (published.by = "poller" /\ IsTelemetryTopic(published.topic)) =>
       /\ published.retain
       /\ told = {published.payload.data}
  /\ (published.by = "poller" /\ split(published.topic)[1] = S_discovery) =>
       published.retain

\* C20's case: the record of the third device, with a scaled voltage in its
\* status map, has just been handed to insert_one.
C20_Witness ==
  /\ \E doc \in inserted :
       /\ doc.device_id = ID_other
       /\ DOMAIN doc.status = {C_cur_voltage, C_switch}
       /\ doc.status[C_cur_voltage] = PyFloat(220500)
  /\ cycle[Len(cycle)].ev = "insert_one"

====
